---- MODULE Spec2Model ----
(***************************************************************************)
(* Model of agentops/http_client.py: the Response classifier, the          *)
(* HttpClient.post / HttpClient.get request executor and the process-wide  *)
(* session, together with the dead_letter_queue store that the tests       *)
(* import from the same module.                                            *)
(*                                                                         *)
(* The transport (requests.Session) is the environment: what it delivers   *)
(* to each request is an input, written as a script of outcomes consumed   *)
(* in request order, the way the tests script Mock.side_effect.            *)
(***************************************************************************)
EXTENDS Integers, Sequences, FiniteSets

VARIABLES
    dead_letter_queue,  \* the queued request descriptors, in enqueue order
    _session,           \* HttpClient._session: None or the session object
    op,                 \* the operation that ran last
    request,            \* the arguments of the last post/get
    script,             \* what the transport delivers to the 1st, 2nd, ... request
    before,             \* dead_letter_queue when the last operation started
    outcome,            \* how the last post/get ended: a Response or an exception
    sent,               \* the requests the last post/get handed to the transport
    classified,         \* the last get_status call: its code and its result
    pc,                 \* where each thread stands inside its call
    call,               \* the call each thread is in: its arguments and locals
    created,            \* the session objects constructed so far
    configured,         \* what was put on which session object: <<object, part>>
    returned,           \* the session objects get_session has returned
    mutated,            \* per thread: the dicts other threads restructured
                        \* since it entered its current statement
    prepared            \* a direct _prepare_headers call: arguments and result

threadVars == <<pc, call, created, configured, returned, mutated>>

vars == <<dead_letter_queue, _session, op, request, script, before, outcome,
          sent, classified, pc, call, created, configured, returned, mutated,
          prepared>>

----------------------------------------------------------------------------
(* Bounds *)

MaxQueue == 2
MaxCode == 600
NegCodes == 3
MaxScript == 3
MaxOverrides == 2

----------------------------------------------------------------------------
(* Values *)

None == "None"

HttpStatus ==
    {"SUCCESS", "TOO_MANY_REQUESTS", "PAYLOAD_TOO_LARGE", "TIMEOUT",
     "INVALID_API_KEY", "INVALID_REQUEST", "FAILED", "UNKNOWN"}

\* Integer codes handed to the classifier.
Codes == (0 - NegCodes)..MaxCode

\* Status codes the transport delivers to post/get.
StatusCodes == {200, 204, 400, 401, 500, 503}

\* A parsed JSON body is a dict: a set of <<key, value>> pairs.
EmptyBody == {}
BodyMessage == {<<"message", "Success">>}
BodyError == {<<"error", "Internal Server Error">>}

\* A membership test that finds no key in any body.
HasKey_finds_nothing(body, k) == FALSE

\* k in body
HasKey(body, k) == \E kv \in body : kv[1] = k
\* body[k]
ValueOf(body, k) == (CHOOSE kv \in body : kv[1] = k)[2]

\* A raw transport response: status_code, and json() either returns the body
\* or raises.
RawResponses ==
    {[status_code |-> c, parsable |-> TRUE, json |-> BodyMessage] :
        c \in StatusCodes}
    \cup {[status_code |-> c, parsable |-> TRUE, json |-> BodyError] :
        c \in {400, 500}}
    \cup {[status_code |-> c, parsable |-> FALSE, json |-> EmptyBody] :
        c \in StatusCodes}

NoRaw == [status_code |-> 0, parsable |-> FALSE, json |-> EmptyBody]

\* What session.post / session.get does with one request.
TransportOutcomes ==
    {[kind |-> "Timeout", response |-> NoRaw],
     [kind |-> "RequestException", response |-> NoRaw]}
    \cup {[kind |-> "HTTPError", response |-> r] : r \in RawResponses}
    \cup {[kind |-> "Response", response |-> r] : r \in RawResponses}

Ok200 == [kind |-> "Response",
          response |-> [status_code |-> 200, parsable |-> TRUE,
                        json |-> BodyMessage]]
Err500 == [kind |-> "HTTPError",
           response |-> [status_code |-> 500, parsable |-> TRUE,
                         json |-> BodyError]]

\* What the transport is scripted to deliver to the requests after the first.
ReplayOutcomes == {Ok200, Err500}

Url == "https://example.com/api"
Url1 == "https://example.com/api1"
Url2 == "https://example.com/api2"
Payload == "{key: value}"
Payload1 == "{key: value1}"

\* The argument tuples of the calls: <<method, url, payload, api_key,
\* parent_key, jwt>>.
Calls ==
    {[method |-> "POST", url |-> Url, payload |-> Payload, api_key |-> None,
      parent_key |-> None, jwt |-> None],
     [method |-> "POST", url |-> Url1, payload |-> Payload1,
      api_key |-> "API_KEY_1", parent_key |-> "PARENT_KEY", jwt |-> "JWT"],
     [method |-> "GET", url |-> Url, payload |-> None, api_key |-> None,
      parent_key |-> None, jwt |-> None],
     [method |-> "GET", url |-> Url2, payload |-> None,
      api_key |-> "API_KEY_2", parent_key |-> None, jwt |-> "JWT"]}

NoRequest == [method |-> None, url |-> None, payload |-> None,
              api_key |-> None, parent_key |-> None, jwt |-> None]

\* The descriptors the tests put in the queue.
failed_post_request ==
    [url |-> Url1, payload |-> Payload1, api_key |-> "API_KEY_1",
     parent_key |-> None, jwt |-> None, error_type |-> "Timeout"]
failed_get_request ==
    [url |-> Url2, payload |-> None, api_key |-> "API_KEY_2",
     parent_key |-> None, jwt |-> None, error_type |-> "Timeout"]
Descriptors == {failed_post_request, failed_get_request}

----------------------------------------------------------------------------
(* Response *)

\* get_status with the generic 400..499 range tested before the specific
\* client codes.
get_status_range_first(code) ==
    IF 200 <= code /\ code < 300 THEN "SUCCESS"
    ELSE IF 400 <= code /\ code < 500 THEN "INVALID_REQUEST"
    ELSE IF code = 429 THEN "TOO_MANY_REQUESTS"
    ELSE IF code = 413 THEN "PAYLOAD_TOO_LARGE"
    ELSE IF code = 408 THEN "TIMEOUT"
    ELSE IF code = 401 THEN "INVALID_API_KEY"
    ELSE IF code >= 500 THEN "FAILED"
    ELSE "UNKNOWN"

\* Response.get_status
get_status(code) ==
    IF 200 <= code /\ code < 300 THEN "SUCCESS"
    ELSE IF code = 429 THEN "TOO_MANY_REQUESTS"
    ELSE IF code = 413 THEN "PAYLOAD_TOO_LARGE"
    ELSE IF code = 408 THEN "TIMEOUT"
    ELSE IF code = 401 THEN "INVALID_API_KEY"
    ELSE IF 400 <= code /\ code < 500 THEN "INVALID_REQUEST"
    ELSE IF code >= 500 THEN "FAILED"
    ELSE "UNKNOWN"

\* parse classifying before it stores the new code: the status comes from
\* the code the Response was constructed with (UNKNOWN's).
parse_status_before_code(res) ==
    [status |-> "UNKNOWN",
     code |-> res.status_code,
     body |-> res.json]

\* Response.parse on a response whose json() returns.
parse(res) ==
    [status |-> get_status(res.status_code),
     code |-> res.status_code,
     body |-> res.json]

NoResponse == [status |-> None, code |-> 0, body |-> EmptyBody]
NoDetail == [from |-> None, text |-> None, body |-> EmptyBody]

\* Return handing back the Response with the status it was constructed with.
Return_status_as_constructed(result) ==
    [kind |-> "return", response |-> [result EXCEPT !.status = "UNKNOWN"],
     exc |-> None, msg |-> None, detail |-> NoDetail]

Return(result) ==
    [kind |-> "return", response |-> result,
     exc |-> None, msg |-> None, detail |-> NoDetail]

Raise(type, msg, detail) ==
    [kind |-> "raise", response |-> NoResponse,
     exc |-> type, msg |-> msg, detail |-> detail]

NoOutcome ==
    [kind |-> None, response |-> NoResponse,
     exc |-> None, msg |-> None, detail |-> NoDetail]

----------------------------------------------------------------------------
(* HttpClient *)

ApiServerException == "ApiServerException"

MsgTimeout == "Could not reach API server - connection timed out"
\* The message an HTTPError gets when the RequestException clause, which
\* matches it too, comes first.
MsgHTTPError_from_base_clause == "RequestException: "

MsgHTTPError == "HTTPError: "
MsgRequestException == "RequestException: "
MsgInvalidKeyPost == "API server: invalid API key or JWT."
MsgInvalidKeyGet == "API server: invalid API key: "
MsgApiServer == "API server: "
MsgInternal == "API server: internal server error"

TheSession == "requests.Session"

----------------------------------------------------------------------------
(* HttpClient._prepare_headers *)

\* The spellings of header names the callers use.
HeaderNames ==
    {"content-type", "Content-Type", "CONTENT-TYPE",
     "accept", "Accept",
     "x-agentops-api-key", "X-AgentOps-Api-Key", "X-Agentops-Api-Key",
     "x-agentops-parent-key", "X-AgentOps-Parent-Key",
     "authorization", "Authorization",
     "x-trace-id", "X-Trace-Id"}

\* str.lower() on a header name.
lower(k) ==
    CASE k \in {"content-type", "Content-Type", "CONTENT-TYPE"} ->
            "content-type"
      [] k \in {"accept", "Accept"} -> "accept"
      [] k \in {"x-agentops-api-key", "X-AgentOps-Api-Key",
                "X-Agentops-Api-Key"} -> "x-agentops-api-key"
      [] k \in {"x-agentops-parent-key", "X-AgentOps-Parent-Key"} ->
            "x-agentops-parent-key"
      [] k \in {"authorization", "Authorization"} -> "authorization"
      [] k \in {"x-trace-id", "X-Trace-Id"} -> "x-trace-id"

proper_case ==
    [k \in {"content-type", "accept", "x-agentops-api-key",
            "x-agentops-parent-key", "authorization"} |->
        CASE k = "content-type" -> "Content-Type"
          [] k = "accept" -> "Accept"
          [] k = "x-agentops-api-key" -> "X-AgentOps-Api-Key"
          [] k = "x-agentops-parent-key" -> "X-AgentOps-Parent-Key"
          [] k = "authorization" -> "Authorization"]

\* proper_case.get(lower_k, k) falling back on the caller's spelling for every
\* name, the known ones included.
proper_case_get_as_spelled(lower_k, k) == k

\* proper_case.get(lower_k, k)
proper_case_get(lower_k, k) ==
    IF lower_k \in DOMAIN proper_case THEN proper_case[lower_k] ELSE k

\* A header value is the sequence of the strings it is put together from:
\* <<v>> for a plain value, <<"Bearer ", jwt>> for f"Bearer {jwt}".
DefaultContentType == <<"application/json; charset=UTF-8">>
JSON_HEADER ==
    <<(<<"Content-Type", DefaultContentType>>), (<<"Accept", <<"*/*">>>>)>>

\* headers[k] = v on a dict kept as a set of <<key, value>> pairs.
SetItem(headers, k, v) == {p \in headers : p[1] # k} \cup {<<k, v>>}

RECURSIVE MergeItems(_, _)
\* for k, v in items: headers[proper_case.get(k.lower(), k)] = v
MergeItems(headers, items) ==
    IF items = << >> THEN headers
    ELSE LET k == Head(items)[1]
             v == Head(items)[2]
         IN  MergeItems(SetItem(headers, proper_case_get(lower(k), k), v),
                        Tail(items))

\* An optional dict argument: given or None, and its items in dict order.
NoDict == [given |-> FALSE, items |-> << >>]
Dict(items) == [given |-> TRUE, items |-> items]

\* _prepare_headers merging the overrides before the credentials.
_prepare_headers_overrides_first(api_key, parent_key, jwt, custom_headers) ==
    LET h0 == MergeItems({}, JSON_HEADER)
        hc == IF custom_headers.given
              THEN MergeItems(h0, custom_headers.items)
              ELSE h0
        h1 == IF api_key # None
              THEN SetItem(hc, proper_case["x-agentops-api-key"], <<api_key>>)
              ELSE hc
        h2 == IF parent_key # None
              THEN SetItem(h1, proper_case["x-agentops-parent-key"],
                           <<parent_key>>)
              ELSE h1
    IN  IF jwt # None
        THEN SetItem(h2, proper_case["authorization"], <<"Bearer ", jwt>>)
        ELSE h2

\* HttpClient._prepare_headers
_prepare_headers(api_key, parent_key, jwt, custom_headers) ==
    LET h0 == MergeItems({}, JSON_HEADER)
        h1 == IF api_key # None
              THEN SetItem(h0, proper_case["x-agentops-api-key"], <<api_key>>)
              ELSE h0
        h2 == IF parent_key # None
              THEN SetItem(h1, proper_case["x-agentops-parent-key"],
                           <<parent_key>>)
              ELSE h1
        h3 == IF jwt # None
              THEN SetItem(h2, proper_case["authorization"],
                           <<"Bearer ", jwt>>)
              ELSE h2
    IN  IF custom_headers.given
        THEN MergeItems(h3, custom_headers.items)
        ELSE h3

NoPrepared ==
    [api_key |-> None, parent_key |-> None, jwt |-> None,
     custom_headers |-> NoDict, done |-> FALSE, headers |-> {}]

\* HttpClient.get_session: the value of cls._session when it returns.
get_session(s) == IF s = None THEN TheSession ELSE s

\* Response.json() raising on an ordinary response: the exception is
\* requests.exceptions.JSONDecodeError, a RequestException that post/get
\* convert, where the installed requests defines it, and a plain ValueError
\* that no except clause of post/get names otherwise.
JsonFailure ==
    {Raise(ApiServerException, MsgRequestException, NoDetail),
     Raise("ValueError", None, NoDetail)}

\* post without its check of code 400.
post_without_400_check(url, payload, api_key, parent_key, jwt, tr) ==
    IF tr.kind = "Timeout"
    THEN {Raise(ApiServerException, MsgTimeout, NoDetail)}
    ELSE IF tr.kind = "HTTPError" /\ ~tr.response.parsable
    THEN {Raise(ApiServerException, MsgHTTPError, NoDetail)}
    ELSE IF tr.kind = "RequestException"
    THEN {Raise(ApiServerException, MsgRequestException, NoDetail)}
    ELSE IF ~tr.response.parsable
    THEN JsonFailure
    ELSE LET result == parse(tr.response) IN
         IF result.code = 401
         THEN {Raise(ApiServerException, MsgInvalidKeyPost, NoDetail)}
         ELSE IF result.code = 500
         THEN {Raise(ApiServerException, MsgInternal, NoDetail)}
         ELSE {Return(result)}

\* HttpClient.post with the transport's answer tr to its one request: the
\* set of ways the call can end.
post(url, payload, api_key, parent_key, jwt, tr) ==
    IF tr.kind = "Timeout"
    THEN {Raise(ApiServerException, MsgTimeout, NoDetail)}
    ELSE IF tr.kind = "HTTPError" /\ ~tr.response.parsable
    THEN {Raise(ApiServerException, MsgHTTPError, NoDetail)}
    ELSE IF tr.kind = "RequestException"
    THEN {Raise(ApiServerException, MsgRequestException, NoDetail)}
    ELSE IF ~tr.response.parsable
    THEN JsonFailure
    ELSE LET result == parse(tr.response) IN
         IF result.code = 401
         THEN {Raise(ApiServerException, MsgInvalidKeyPost, NoDetail)}
         ELSE IF result.code = 400
         THEN IF HasKey(result.body, "message")
              THEN {Raise(ApiServerException, MsgApiServer,
                          [from |-> "message",
                           text |-> ValueOf(result.body, "message"),
                           body |-> EmptyBody])}
              ELSE {Raise(ApiServerException, MsgApiServer,
                          [from |-> "body", text |-> None,
                           body |-> result.body])}
         ELSE IF result.code = 500
         THEN {Raise(ApiServerException, MsgInternal, NoDetail)}
         ELSE {Return(result)}

\* get without its check of code 500.
get_without_500_check(url, api_key, jwt, tr) ==
    IF tr.kind = "Timeout"
    THEN {Raise(ApiServerException, MsgTimeout, NoDetail)}
    ELSE IF tr.kind = "HTTPError" /\ ~tr.response.parsable
    THEN {Raise(ApiServerException, MsgHTTPError, NoDetail)}
    ELSE IF tr.kind = "RequestException"
    THEN {Raise(ApiServerException, MsgRequestException, NoDetail)}
    ELSE IF ~tr.response.parsable
    THEN JsonFailure
    ELSE LET result == parse(tr.response) IN
         IF result.code = 401
         THEN {Raise(ApiServerException, MsgInvalidKeyGet,
                     [from |-> "api_key", text |-> api_key,
                      body |-> EmptyBody])}
         ELSE IF result.code = 400
         THEN IF HasKey(result.body, "message")
              THEN {Raise(ApiServerException, MsgApiServer,
                          [from |-> "message",
                           text |-> ValueOf(result.body, "message"),
                           body |-> EmptyBody])}
              ELSE {Raise(ApiServerException, MsgApiServer,
                          [from |-> "body", text |-> None,
                           body |-> result.body])}
         ELSE {Return(result)}

\* HttpClient.get, likewise.
get(url, api_key, jwt, tr) ==
    IF tr.kind = "Timeout"
    THEN {Raise(ApiServerException, MsgTimeout, NoDetail)}
    ELSE IF tr.kind = "HTTPError" /\ ~tr.response.parsable
    THEN {Raise(ApiServerException, MsgHTTPError, NoDetail)}
    ELSE IF tr.kind = "RequestException"
    THEN {Raise(ApiServerException, MsgRequestException, NoDetail)}
    ELSE IF ~tr.response.parsable
    THEN JsonFailure
    ELSE LET result == parse(tr.response) IN
         IF result.code = 401
         THEN {Raise(ApiServerException, MsgInvalidKeyGet,
                     [from |-> "api_key", text |-> api_key,
                      body |-> EmptyBody])}
         ELSE IF result.code = 400
         THEN IF HasKey(result.body, "message")
              THEN {Raise(ApiServerException, MsgApiServer,
                          [from |-> "message",
                           text |-> ValueOf(result.body, "message"),
                           body |-> EmptyBody])}
              ELSE {Raise(ApiServerException, MsgApiServer,
                          [from |-> "body", text |-> None,
                           body |-> result.body])}
         ELSE IF result.code = 500
         THEN {Raise(ApiServerException, MsgInternal, NoDetail)}
         ELSE {Return(result)}

\* The request session.post / session.get receives: url, data and the
\* headers prepared from the credentials.
PostRequest(url, payload, api_key, parent_key, jwt) ==
    [method |-> "POST", url |-> url, payload |-> payload,
     api_key |-> api_key, parent_key |-> parent_key, jwt |-> jwt,
     headers |-> _prepare_headers(api_key, parent_key, jwt, NoDict)]

GetRequest(url, api_key, jwt) ==
    [method |-> "GET", url |-> url, payload |-> None,
     api_key |-> api_key, parent_key |-> None, jwt |-> jwt,
     headers |-> _prepare_headers(api_key, None, jwt, NoDict)]

----------------------------------------------------------------------------
(* dead_letter_queue: the store the tests reach through add, get_all, clear *)

add(queue, descriptor) == Append(queue, descriptor)
get_all(queue) == queue

\* clear dropping the oldest descriptor only.
clear_oldest_only(queue) == IF queue = << >> THEN << >> ELSE Tail(queue)

clear(queue) == << >>

\* More descriptors a caller can hand to add: the other ones of the tests,
\* and one for each call that failed with a timeout or a server error.
failed_request_2 ==
    [url |-> Url2, payload |-> "{key: value2}", api_key |-> "API_KEY_2",
     parent_key |-> None, jwt |-> None, error_type |-> "Timeout"]
dummy_request ==
    [url |-> "https://example.com", payload |-> None, api_key |-> None,
     parent_key |-> None, jwt |-> None, error_type |-> "DummyError"]
DescriptorOf(c, error_type) ==
    [url |-> c.url, payload |-> c.payload, api_key |-> c.api_key,
     parent_key |-> c.parent_key, jwt |-> c.jwt, error_type |-> error_type]
QueueDescriptors ==
    Descriptors \cup {failed_request_2, dummy_request}
    \cup {DescriptorOf(c, e) : c \in Calls, e \in {"Timeout", "ServerError"}}

----------------------------------------------------------------------------
(* Actions *)

NoClassified == [code |-> 0, status |-> None]

\* The threads that call into HttpClient, and the object each one constructs
\* if it reaches requests.Session().
Threads == {"t1", "t2"}
NewSession(t) == IF t = "t1" THEN "requests.Session#1"
                 ELSE "requests.Session#2"

\* A thread outside every call.
NoCall == [op |-> None, request |-> NoRequest, headers |-> {},
           session |-> None]

Init ==
    /\ dead_letter_queue = << >>
    /\ _session = None
    /\ op = None
    /\ request = NoRequest
    /\ script = << >>
    /\ before = << >>
    /\ outcome = NoOutcome
    /\ sent = << >>
    /\ classified = NoClassified
    /\ pc = [t \in Threads |-> "idle"]
    /\ call = [t \in Threads |-> NoCall]
    /\ created = {}
    /\ configured = {}
    /\ returned = {}
    /\ mutated = [t \in Threads |-> {}]
    /\ prepared = NoPrepared

\* What the last finished call left to observe.
callVars == <<dead_letter_queue, op, request, script, before, outcome, sent,
              classified, prepared>>

\* The scripts a caller can set up: tr for the call's own request, then one
\* outcome for each request a replay of the queued descriptors would make.
Scripts(tr) ==
    {<<tr>> \o rest :
        rest \in [1..Len(dead_letter_queue) -> ReplayOutcomes]}

\* The session keeps its adapters and its headers in ordered dicts.  mount
\* and session.post / session.get iterate over the adapters, and session.post
\* / session.get over the headers; mount("https://", ...) moves the shorter
\* prefix behind the new one, and the first headers.update on an object adds
\* keys.  An iteration that overlaps such a change made by another thread on
\* the same object can end in RuntimeError.
MsgMutated == "OrderedDict mutated during iteration"

\* The statements that iterate over a dict of the session: both mounts and
\* session.post / session.get.
Iterating == {"mount_http", "mount_https", "wait"}

\* What the threads have seen restructured once thread t has finished a
\* statement that restructured the dicts in changed: t starts its next
\* statement with nothing seen, every other thread inside an iterating
\* statement has seen the change.
Marks(t, changed) ==
    [u \in Threads |->
        IF u = t THEN {}
        ELSE IF pc[u] \in Iterating THEN mutated[u] \cup changed
        ELSE mutated[u]]

\* The iteration of thread t over the adapters of the object cls._session
\* names can have met a change: one made since t entered the statement, or
\* one another thread is making inside mount("https://", ...).
AdaptersMutated(t) ==
    \/ <<_session, "adapters">> \in mutated[t]
    \/ \E u \in Threads \ {t} : pc[u] = "mount_https"

\* Another thread is inside the move of mount("https://", ...) on the same
\* object: it has popped "http://" and not yet stored it back.
HttpKeyPopped(t) ==
    \E u \in Threads \ {t} : pc[u] = "mount_https"

MsgKey == "'http://'"

\* The iteration of session.post / session.get of thread t over the adapters
\* or the headers of its session can have met a change: one made since t got
\* the session, or one another thread is making in mount("https://", ...) or
\* in the first headers.update on that object.
SessionMutated(t) ==
    \/ <<call[t].session, "adapters">> \in mutated[t]
    \/ <<call[t].session, "headers">> \in mutated[t]
    \/ /\ call[t].session = _session
       /\ \E u \in Threads \ {t} :
           \/ pc[u] = "mount_https"
           \/ /\ pc[u] = "update_headers"
              /\ <<_session, "headers">> \notin configured

\* The exception leaves the call of thread t: no except clause of post or
\* get names RuntimeError or KeyError, and get_session has none.
Escape(t, exc, msg) ==
    /\ op' = call[t].op
    /\ request' = call[t].request
    /\ script' = << >>
    /\ before' = dead_letter_queue
    /\ sent' = << >>
    /\ outcome' = Raise(exc, msg, NoDetail)
    /\ pc' = [pc EXCEPT ![t] = "idle"]
    /\ call' = [call EXCEPT ![t] = NoCall]
    /\ mutated' = Marks(t, {})
    /\ UNCHANGED <<dead_letter_queue, classified, prepared>>

\* HttpClient.post(url, payload, api_key, parent_key, jwt) up to the call of
\* get_session: result = Response(), headers = _prepare_headers(...).
PostCall(t, c) ==
    /\ mutated' = Marks(t, {})
    /\ pc[t] = "idle"
    /\ c.method = "POST"
    /\ call' = [call EXCEPT ![t] =
                    [op |-> "post", request |-> c,
                     headers |-> _prepare_headers(c.api_key, c.parent_key,
                                                  c.jwt, NoDict),
                     session |-> None]]
    /\ pc' = [pc EXCEPT ![t] = "check"]
    /\ UNCHANGED <<_session, created, configured, returned>>
    /\ UNCHANGED callVars

\* HttpClient.get(url, api_key, jwt) up to the call of get_session.
GetCall(t, c) ==
    /\ mutated' = Marks(t, {})
    /\ pc[t] = "idle"
    /\ c.method = "GET"
    /\ call' = [call EXCEPT ![t] =
                    [op |-> "get", request |-> c,
                     headers |-> _prepare_headers(c.api_key, None, c.jwt,
                                                  NoDict),
                     session |-> None]]
    /\ pc' = [pc EXCEPT ![t] = "check"]
    /\ UNCHANGED <<_session, created, configured, returned>>
    /\ UNCHANGED callVars

\* a thread calls HttpClient.get_session() itself
SessionCall(t) ==
    /\ mutated' = Marks(t, {})
    /\ pc[t] = "idle"
    /\ call' = [call EXCEPT ![t] = [NoCall EXCEPT !.op = "get_session"]]
    /\ pc' = [pc EXCEPT ![t] = "check"]
    /\ UNCHANGED <<_session, created, configured, returned>>
    /\ UNCHANGED callVars

\* get_session step by step.  No lock is taken, so a thread switch can fall
\* between any two statements.
\* if cls._session is None:
SessionCheck(t) ==
    /\ mutated' = Marks(t, {})
    /\ pc[t] = "check"
    /\ pc' = [pc EXCEPT ![t] = IF _session = None THEN "create" ELSE "return"]
    /\ UNCHANGED <<_session, call, created, configured, returned>>
    /\ UNCHANGED callVars

\* cls._session = requests.Session()
SessionCreate(t) ==
    /\ mutated' = Marks(t, {})
    /\ pc[t] = "create"
    /\ _session' = NewSession(t)
    /\ created' = created \cup {NewSession(t)}
    /\ pc' = [pc EXCEPT ![t] = "mount_http"]
    /\ UNCHANGED <<call, configured, returned>>
    /\ UNCHANGED callVars

\* adapter = requests.adapters.HTTPAdapter(...), local to the thread, and
\* cls._session.mount("http://", adapter): on the object cls._session names
\* when the statement runs.  mount stores the adapter and then iterates over
\* the adapters.
SessionMountHttp(t) ==
    /\ pc[t] = "mount_http"
    /\ configured' = configured \cup {<<_session, "http://">>}
    /\ UNCHANGED <<_session, created, returned>>
    /\ \/ /\ pc' = [pc EXCEPT ![t] = "mount_https"]
          /\ mutated' = Marks(t, {})
          /\ UNCHANGED call
          /\ UNCHANGED callVars
       \/ /\ AdaptersMutated(t)
          /\ Escape(t, "RuntimeError", MsgMutated)

\* cls._session.mount("https://", adapter): cls._session is read anew.
\* mount stores the adapter, collects the shorter prefixes by iterating over
\* the adapters, then pops "http://" and stores it back behind "https://".
\* The iteration can meet another thread's change (RuntimeError); the pop
\* can find the key taken out by another thread's pop (KeyError).
SessionMountHttps(t) ==
    /\ pc[t] = "mount_https"
    /\ configured' = configured \cup {<<_session, "https://">>}
    /\ UNCHANGED <<_session, created, returned>>
    /\ \/ /\ pc' = [pc EXCEPT ![t] = "update_headers"]
          /\ mutated' = Marks(t, {<<_session, "adapters">>})
          /\ UNCHANGED call
          /\ UNCHANGED callVars
       \/ /\ AdaptersMutated(t)
          /\ Escape(t, "RuntimeError", MsgMutated)
       \/ /\ HttpKeyPopped(t)
          /\ Escape(t, "KeyError", MsgKey)

\* cls._session.headers.update({...}): cls._session is read anew.  The first
\* update on an object adds keys to its headers; a later one only stores
\* values under keys that are there.
SessionUpdateHeaders(t) ==
    /\ mutated' = Marks(t, IF <<_session, "headers">> \in configured
                           THEN {}
                           ELSE {<<_session, "headers">>})
    /\ pc[t] = "update_headers"
    /\ configured' = configured \cup {<<_session, "headers">>}
    /\ pc' = [pc EXCEPT ![t] = "return"]
    /\ UNCHANGED <<_session, call, created, returned>>
    /\ UNCHANGED callVars

\* return cls._session; inside post/get the caller goes on to
\* session.post / session.get(url, headers=headers, timeout=20) on the object
\* it got and waits for the transport.
SessionReturn(t) ==
    /\ mutated' = Marks(t, {})
    /\ pc[t] = "return"
    /\ returned' = returned \cup {_session}
    /\ IF call[t].op = "get_session"
       THEN /\ pc' = [pc EXCEPT ![t] = "idle"]
            /\ call' = [call EXCEPT ![t] = NoCall]
       ELSE /\ pc' = [pc EXCEPT ![t] = "wait"]
            /\ call' = [call EXCEPT ![t].session = _session]
    /\ UNCHANGED <<_session, created, configured>>
    /\ UNCHANGED callVars

\* The steps of get_session a thread takes inside a call.
SessionSteps(t) ==
    \/ SessionCheck(t)
    \/ SessionCreate(t)
    \/ SessionMountHttp(t)
    \/ SessionMountHttps(t)
    \/ SessionUpdateHeaders(t)
    \/ SessionReturn(t)

\* PostAnswer with a drain that gives up the queued descriptors: after a
\* returned Response the queue is empty, whatever the replays would have met.
PostAnswer_dropping_queue(t, tr) ==
    /\ pc[t] = "wait"
    /\ call[t].op = "post"
    /\ LET c == call[t].request IN
       \E o \in post(c.url, c.payload, c.api_key, c.parent_key, c.jwt, tr),
          sc \in Scripts(tr) :
          /\ op' = "post"
          /\ request' = c
          /\ script' = sc
          /\ before' = dead_letter_queue
          /\ sent' = <<PostRequest(c.url, c.payload, c.api_key,
                                   c.parent_key, c.jwt)>>
          /\ outcome' = o
          /\ dead_letter_queue' =
                IF o.kind = "return" THEN << >> ELSE dead_letter_queue
    /\ pc' = [pc EXCEPT ![t] = "idle"]
    /\ call' = [call EXCEPT ![t] = NoCall]
    /\ mutated' = Marks(t, {})
    /\ UNCHANGED <<_session, classified, prepared, created, configured,
                   returned>>

\* The rest of HttpClient.post once the transport has dealt with the request:
\* result.parse(res) or the except clauses, then the checks of result.code.
PostAnswer(t, tr) ==
    /\ pc[t] = "wait"
    /\ call[t].op = "post"
    /\ \/ /\ LET c == call[t].request IN
             \E o \in post(c.url, c.payload, c.api_key, c.parent_key,
                           c.jwt, tr),
                sc \in Scripts(tr) :
                /\ op' = "post"
                /\ request' = c
                /\ script' = sc
                /\ before' = dead_letter_queue
                /\ sent' = <<PostRequest(c.url, c.payload, c.api_key,
                                         c.parent_key, c.jwt)>>
                /\ outcome' = o
          /\ pc' = [pc EXCEPT ![t] = "idle"]
          /\ call' = [call EXCEPT ![t] = NoCall]
          /\ mutated' = Marks(t, {})
          /\ UNCHANGED <<dead_letter_queue, classified, prepared>>
       \/ /\ SessionMutated(t)
          /\ Escape(t, "RuntimeError", MsgMutated)
    /\ UNCHANGED <<_session, created, configured, returned>>

\* The rest of HttpClient.get, likewise.
GetAnswer(t, tr) ==
    /\ pc[t] = "wait"
    /\ call[t].op = "get"
    /\ \/ /\ LET c == call[t].request IN
             \E o \in get(c.url, c.api_key, c.jwt, tr),
                sc \in Scripts(tr) :
                /\ op' = "get"
                /\ request' = c
                /\ script' = sc
                /\ before' = dead_letter_queue
                /\ sent' = <<GetRequest(c.url, c.api_key, c.jwt)>>
                /\ outcome' = o
          /\ pc' = [pc EXCEPT ![t] = "idle"]
          /\ call' = [call EXCEPT ![t] = NoCall]
          /\ mutated' = Marks(t, {})
          /\ UNCHANGED <<dead_letter_queue, classified, prepared>>
       \/ /\ SessionMutated(t)
          /\ Escape(t, "RuntimeError", MsgMutated)
    /\ UNCHANGED <<_session, created, configured, returned>>

\* dead_letter_queue.add(descriptor)
Add(d) ==
    /\ Len(dead_letter_queue) < MaxQueue
    /\ dead_letter_queue' = add(dead_letter_queue, d)
    /\ op' = "add"
    /\ request' = NoRequest
    /\ script' = << >>
    /\ before' = dead_letter_queue
    /\ outcome' = NoOutcome
    /\ sent' = << >>
    /\ UNCHANGED <<_session, classified, prepared>>
    /\ UNCHANGED threadVars

\* dead_letter_queue.clear()
Clear ==
    /\ dead_letter_queue' = clear(dead_letter_queue)
    /\ op' = "clear"
    /\ request' = NoRequest
    /\ script' = << >>
    /\ before' = dead_letter_queue
    /\ outcome' = NoOutcome
    /\ sent' = << >>
    /\ UNCHANGED <<_session, classified, prepared>>
    /\ UNCHANGED threadVars

\* Response.get_status(code)
Classify(code) ==
    /\ classified' = [code |-> code, status |-> get_status(code)]
    /\ UNCHANGED <<dead_letter_queue, _session, op, request, script, before,
                   outcome, sent, prepared>>
    /\ UNCHANGED threadVars

\* The calls and the transport's answers of the threads that run side by
\* side.
ThreadCalls == {c \in Calls : c.url = Url}
ThreadOutcomes == {[kind |-> "Timeout", response |-> NoRaw], Ok200, Err500}

Next ==
    \/ \E t \in Threads, c \in ThreadCalls : PostCall(t, c)
    \/ \E t \in Threads, c \in ThreadCalls : GetCall(t, c)
    \/ \E t \in Threads : SessionCall(t)
    \/ \E t \in Threads : SessionSteps(t)
    \/ \E t \in Threads, tr \in ThreadOutcomes : PostAnswer(t, tr)
    \/ \E t \in Threads, tr \in ThreadOutcomes : GetAnswer(t, tr)
    \/ \E d \in Descriptors : Add(d)
    \/ Clear

Spec == Init /\ [][Next]_vars

----------------------------------------------------------------------------
(* One caller, every call of Calls and every answer of TransportOutcomes. *)

\* The one thread of the runs that are about a single caller.
MainThread == "t1"

NextSingle ==
    \/ \E c \in Calls : PostCall(MainThread, c)
    \/ \E c \in Calls : GetCall(MainThread, c)
    \/ SessionSteps(MainThread)
    \/ \E tr \in TransportOutcomes : PostAnswer(MainThread, tr)
    \/ \E tr \in TransportOutcomes : GetAnswer(MainThread, tr)
    \/ \E d \in Descriptors : Add(d)
    \/ Clear

SpecSingle == Init /\ [][NextSingle]_vars

----------------------------------------------------------------------------
(* get_session called directly by several threads. *)

NextSession ==
    \E t \in Threads :
        \/ SessionCall(t)
        \/ SessionSteps(t)

SpecSession == Init /\ [][NextSession]_vars

----------------------------------------------------------------------------
(* post against a transport scripted for several attempts, the way
   test_post_with_retries scripts Mock.side_effect. *)

TimedOut == [kind |-> "Timeout", response |-> NoRaw]
Refused == [kind |-> "RequestException", response |-> NoRaw]

\* What the transport is scripted to do on the 1st, 2nd, ... attempt.
AttemptOutcomes == {TimedOut, Refused, Ok200, Err500}
AttemptScripts ==
    UNION {[1..n -> AttemptOutcomes] : n \in 1..MaxScript}

\* The rest of HttpClient.post with the transport scripted sc: post has made
\* one request, which gets sc[1].
PostAnswerScripted(t, sc) ==
    /\ pc[t] = "wait"
    /\ call[t].op = "post"
    /\ \/ /\ LET c == call[t].request IN
             \E o \in post(c.url, c.payload, c.api_key, c.parent_key,
                           c.jwt, sc[1]) :
                /\ op' = "post"
                /\ request' = c
                /\ script' = sc
                /\ before' = dead_letter_queue
                /\ sent' = <<PostRequest(c.url, c.payload, c.api_key,
                                         c.parent_key, c.jwt)>>
                /\ outcome' = o
          /\ pc' = [pc EXCEPT ![t] = "idle"]
          /\ call' = [call EXCEPT ![t] = NoCall]
          /\ mutated' = Marks(t, {})
          /\ UNCHANGED <<dead_letter_queue, classified, prepared>>
       \/ /\ SessionMutated(t)
          /\ Escape(t, "RuntimeError", MsgMutated)
    /\ UNCHANGED <<_session, created, configured, returned>>

NextRetry ==
    \/ \E c \in Calls : PostCall(MainThread, c)
    \/ SessionSteps(MainThread)
    \/ \E sc \in AttemptScripts : PostAnswerScripted(MainThread, sc)

SpecRetry == Init /\ [][NextRetry]_vars

\* The queue store on its own.
NextQueue ==
    \/ \E d \in QueueDescriptors : Add(d)
    \/ Clear

SpecQueue == Init /\ [][NextQueue]_vars

----------------------------------------------------------------------------
(* _prepare_headers on its own: the arguments are drawn at the start and the
   one action applies the function to them. *)

\* The values the callers give their overrides.
OverrideValues == {<<"text/plain">>, <<"override">>}

\* The override maps: up to MaxOverrides items with distinct keys.
OverrideItems ==
    UNION {{items \in [1..n -> HeaderNames \X OverrideValues] :
               \A i, j \in 1..n : i # j => items[i][1] # items[j][1]} :
           n \in 0..MaxOverrides}

InitHeaders ==
    /\ dead_letter_queue = << >>
    /\ _session = None
    /\ op = None
    /\ request = NoRequest
    /\ script = << >>
    /\ before = << >>
    /\ outcome = NoOutcome
    /\ sent = << >>
    /\ classified = NoClassified
    /\ pc = [t \in Threads |-> "idle"]
    /\ call = [t \in Threads |-> NoCall]
    /\ created = {}
    /\ configured = {}
    /\ returned = {}
    /\ mutated = [t \in Threads |-> {}]
    /\ prepared \in
        {[api_key |-> a, parent_key |-> p, jwt |-> j, custom_headers |-> c,
          done |-> FALSE, headers |-> {}] :
            a \in {None, "API_KEY_1"}, p \in {None, "PARENT_KEY"},
            j \in {None, "JWT"},
            c \in {NoDict} \cup {Dict(items) : items \in OverrideItems}}

\* HttpClient._prepare_headers(api_key, parent_key, jwt, custom_headers)
PrepareHeaders ==
    /\ ~prepared.done
    /\ prepared' =
        [prepared EXCEPT
            !.done = TRUE,
            !.headers = _prepare_headers(prepared.api_key, prepared.parent_key,
                                         prepared.jwt,
                                         prepared.custom_headers)]
    /\ UNCHANGED <<dead_letter_queue, _session, op, request, script, before,
                   outcome, sent, classified, pc, call, created, configured,
                   returned, mutated>>

NextHeaders == PrepareHeaders

SpecHeaders == InitHeaders /\ [][NextHeaders]_vars

\* post and get over every status code the transport can deliver: the codes
\* of HTTP, 100 to MaxCode, on a response whose body parses, returned or
\* attached to an HTTPError.
DeliveredCodes == 100..MaxCode
CodeOutcomes ==
    {[kind |-> k,
      response |-> [status_code |-> code, parsable |-> TRUE,
                    json |-> BodyMessage]] :
        k \in {"Response", "HTTPError"}, code \in DeliveredCodes}
CodeCalls == {c \in Calls : c.url = Url}

NextCodes ==
    \/ \E c \in CodeCalls : PostCall(MainThread, c)
    \/ \E c \in CodeCalls : GetCall(MainThread, c)
    \/ SessionSteps(MainThread)
    \/ \E tr \in CodeOutcomes : PostAnswer(MainThread, tr)
    \/ \E tr \in CodeOutcomes : GetAnswer(MainThread, tr)

SpecCodes == Init /\ [][NextCodes]_vars

\* post and get answered with an HTTPError whose attached response has a
\* body json() cannot parse, over every code the response can carry.
UnparsableOutcomes ==
    {[kind |-> "HTTPError",
      response |-> [status_code |-> code, parsable |-> FALSE,
                    json |-> EmptyBody]] :
        code \in DeliveredCodes}

NextUnparsable ==
    \/ \E c \in CodeCalls : PostCall(MainThread, c)
    \/ \E c \in CodeCalls : GetCall(MainThread, c)
    \/ SessionSteps(MainThread)
    \/ \E tr \in UnparsableOutcomes : PostAnswer(MainThread, tr)
    \/ \E tr \in UnparsableOutcomes : GetAnswer(MainThread, tr)

SpecUnparsable == Init /\ [][NextUnparsable]_vars

\* The classifier on its own, over every code of Codes.
NextClassify == \E code \in Codes : Classify(code)

SpecClassify == Init /\ [][NextClassify]_vars

----------------------------------------------------------------------------
(* Vocabulary of the properties *)

IsCall == op \in {"post", "get"}

\* What the transport delivered to the call's own request, when the call got
\* as far as the transport.
NoAnswer == [kind |-> None, response |-> NoRaw]
First == IF script = << >> THEN NoAnswer ELSE script[1]

\* What the transport is scripted to deliver to the replay of before[i].
ReplayOutcome(i) == script[1 + i]

IsSuccessResponse(tr) ==
    /\ tr.kind = "Response"
    /\ tr.response.parsable
    /\ 200 <= tr.response.status_code
    /\ tr.response.status_code <= 299

CarriesResponse(tr) == tr.kind \in {"Response", "HTTPError"}

Succeeded ==
    /\ IsCall
    /\ outcome.kind = "return"
    /\ outcome.response.status = "SUCCESS"

\* The request that replays a descriptor: POST when it has a payload, GET
\* when it has none.
ReplayRequest(d) ==
    IF d.payload = None
    THEN GetRequest(d.url, d.api_key, d.jwt)
    ELSE PostRequest(d.url, d.payload, d.api_key, d.parent_key, d.jwt)

FailingReplays == {i \in 1..Len(before) : ~IsSuccessResponse(ReplayOutcome(i))}

RECURSIVE KeepFailing(_, _)
\* The descriptors of queue whose scripted replay fails, in queue order.
KeepFailing(queue, outs) ==
    IF queue = << >> THEN << >>
    ELSE (IF IsSuccessResponse(Head(outs)) THEN << >> ELSE <<Head(queue)>>)
         \o KeepFailing(Tail(queue), Tail(outs))

Replayed(i) == \E j \in 2..Len(sent) : sent[j] = ReplayRequest(before[i])

----------------------------------------------------------------------------
(* Properties *)

\* C1: a timeout on POST or GET raises ApiServerException "connection timed
\* out" and leaves exactly one new descriptor in the dead-letter queue, with
\* error_type "Timeout"; from an empty queue get_all() then has length 1.
C1_TimeoutEnqueuesOne ==
    (IsCall /\ First.kind = "Timeout") =>
        /\ outcome.kind = "raise"
        /\ outcome.exc = ApiServerException
        /\ outcome.msg = MsgTimeout
        /\ Len(get_all(dead_letter_queue)) = Len(before) + 1
        /\ SubSeq(dead_letter_queue, 1, Len(before)) = before
        /\ dead_letter_queue[Len(dead_letter_queue)].error_type = "Timeout"

\* C2: an HTTPError carrying a 500 response makes POST and GET raise and
\* leaves exactly one new descriptor in the dead-letter queue, whose url is
\* the url of the failed request and whose error_type is "ServerError".
C2_ServerErrorEnqueuesOne ==
    (IsCall /\ First.kind = "HTTPError" /\ First.response.status_code = 500) =>
        /\ outcome.kind = "raise"
        /\ Len(get_all(dead_letter_queue)) = Len(before) + 1
        /\ SubSeq(dead_letter_queue, 1, Len(before)) = before
        /\ dead_letter_queue[Len(dead_letter_queue)].url = request.url
        /\ dead_letter_queue[Len(dead_letter_queue)].error_type = "ServerError"

\* C3: after a POST or GET that completes with SUCCESS every descriptor that
\* was queued has been replayed with its original method, url, payload and
\* credentials, as many descriptors remain as replays failed, and the queue
\* is empty if all replays succeeded.
C3_SuccessReplaysQueue ==
    Succeeded =>
        /\ \A i \in 1..Len(before) : Replayed(i)
        /\ Len(dead_letter_queue) = Cardinality(FailingReplays)
        /\ (FailingReplays = {} => get_all(dead_letter_queue) = << >>)

\* How often descriptor d stands in queue.
Count(queue, d) == Cardinality({k \in 1..Len(queue) : queue[k] = d})

C5_SuccessReturnsResponse ==
    (IsCall /\ IsSuccessResponse(First)) =>
        /\ outcome.kind = "return"
        /\ outcome.response.status = "SUCCESS"
        /\ outcome.response.code = First.response.status_code
        /\ outcome.response.body = First.response.json
        /\ dead_letter_queue = before

C5_Witness ==
    /\ op = "get"
    /\ First.kind = "Response"
    /\ First.response.status_code = 204
    /\ First.response.parsable
    /\ outcome.kind = "return"
    /\ outcome.response.code = 204
    /\ before # << >>

\* C6: a 401 response and a 400 response make POST and GET raise, and the
\* dead-letter queue is the same after the failed call as before it.
C6_ClientErrorsAreTerminal ==
    (IsCall /\ CarriesResponse(First)
            /\ First.response.status_code \in {400, 401}) =>
        /\ outcome.kind = "raise"
        /\ dead_letter_queue = before

C6_Witness ==
    /\ op = "post"
    /\ First.kind = "Response"
    /\ First.response.status_code = 400
    /\ First.response.parsable
    /\ outcome.kind = "raise"
    /\ outcome.msg = MsgApiServer
    /\ before # << >>
    /\ dead_letter_queue = before

\* C7: for every status code of 500 or above, delivered as an ordinary
\* response or attached to an HTTPError, POST and GET raise instead of
\* returning a Response.
C7_ServerErrorsRaise ==
    (IsCall /\ CarriesResponse(First) /\ First.response.status_code >= 500) =>
        outcome.kind = "raise"

\* C8: get_status is total over the integers and follows the table:
\* 200..299 SUCCESS, 429 TOO_MANY_REQUESTS, 413 PAYLOAD_TOO_LARGE,
\* 408 TIMEOUT, 401 INVALID_API_KEY, the other codes of 400..499
\* INVALID_REQUEST, every code >= 500 FAILED, every remaining integer UNKNOWN.
C8_ClassifierTable ==
    classified.status # None =>
        LET c == classified.code
            s == classified.status
        IN  /\ s \in HttpStatus
            /\ (s = "SUCCESS") <=> (c \in 200..299)
            /\ (s = "TOO_MANY_REQUESTS") <=> (c = 429)
            /\ (s = "PAYLOAD_TOO_LARGE") <=> (c = 413)
            /\ (s = "TIMEOUT") <=> (c = 408)
            /\ (s = "INVALID_API_KEY") <=> (c = 401)
            /\ (s = "INVALID_REQUEST") <=>
                   (c \in 400..499 /\ c \notin {401, 408, 413, 429})
            /\ (s = "FAILED") <=> (c >= 500)
            /\ (s = "UNKNOWN") <=> (c < 200 \/ c \in 300..399)

C8_Witness ==
    /\ classified.code = 404
    /\ classified.status = "INVALID_REQUEST"

\* C9: the drain of a successful POST/GET replays the queued descriptors in
\* enqueue order, goes on after a failed replay, removes the descriptors
\* whose replay succeeds and keeps the failing ones in their relative order.
C9_DrainInOrderPastFailures ==
    Succeeded =>
        /\ sent = <<sent[1]>> \o [i \in 1..Len(before) |->
                                    ReplayRequest(before[i])]
        /\ dead_letter_queue = KeepFailing(before, Tail(script))

\* C10: the drain started by one successful external request attempts each
\* descriptor of the snapshot taken at its start exactly once and then
\* terminates, also when every replay succeeds.
C10_EachDescriptorAttemptedOnce ==
    Succeeded =>
        /\ Len(sent) = 1 + Len(before)
        /\ \A i \in 1..Len(before) : Replayed(i)

\* C12: the session is a process-wide singleton created lazily on first
\* use: for any number of get_session callers, also callers that interleave
\* on the first use, exactly one session object is ever created and every
\* call returns that same object.
C12_OneSessionEver ==
    /\ Cardinality(created) <= 1
    /\ Cardinality(returned) <= 1
    /\ returned \subseteq created

\* C13: post retries transport timeouts: when the transport times out on
\* the first two attempts and answers 200 on the third, one call to post
\* returns the successful Response (code 200) without raising.
C13_PostRetriesTimeouts ==
    (op = "post" /\ script = <<TimedOut, TimedOut, Ok200>>) =>
        /\ outcome.kind = "return"
        /\ outcome.response.code = 200

\* C14: clear() leaves the dead-letter queue empty whatever it held before:
\* get_all() has length 0 right after any clear().
C14_ClearEmpties ==
    op = "clear" => Len(get_all(dead_letter_queue)) = 0

C14_Witness ==
    /\ op = "clear"
    /\ Len(before) = 2
    /\ before[1] = dummy_request
    /\ before[2] = failed_post_request
    /\ get_all(dead_letter_queue) = << >>

----------------------------------------------------------------------------
(* Vocabulary of the header properties *)

KeysOf(headers) == {p[1] : p \in headers}
ValuesOf(headers, k) == {p[2] : p \in {q \in headers : q[1] = k}}
KeysNamed(headers, name) == {k \in KeysOf(headers) : lower(k) = name}

Overrides == prepared.custom_headers.items

\* The positions of the overrides that name a header, in any letter case.
OverridesNaming(name) ==
    {i \in 1..Len(Overrides) : lower(Overrides[i][1]) = name}

\* The value of the last override that names the header.
LastOverride(name) ==
    Overrides[CHOOSE i \in OverridesNaming(name) :
                \A j \in OverridesNaming(name) : j <= i][2]

\* What the parameters alone put under a canonical name: the value, or
\* nothing.
Derived(name) ==
    CASE name = "content-type" -> {DefaultContentType}
      [] name = "accept" -> {<<"*/*">>}
      [] name = "x-agentops-api-key" ->
            IF prepared.api_key = None THEN {} ELSE {<<prepared.api_key>>}
      [] name = "x-agentops-parent-key" ->
            IF prepared.parent_key = None THEN {}
            ELSE {<<prepared.parent_key>>}
      [] name = "authorization" ->
            IF prepared.jwt = None THEN {} ELSE {<<"Bearer ", prepared.jwt>>}

\* C15: when the overrides supply both content-type and Content-Type, the
\* composed headers have exactly one Content-Type key, spelled Content-Type,
\* and its value is an override value, not the default.
C15_ContentTypeOnce ==
    (/\ prepared.done
     /\ \E i, j \in 1..Len(Overrides) :
            /\ Overrides[i][1] = "content-type"
            /\ Overrides[j][1] = "Content-Type") =>
        /\ KeysNamed(prepared.headers, "content-type") = {"Content-Type"}
        /\ Cardinality({p \in prepared.headers : p[1] = "Content-Type"}) = 1
        /\ ValuesOf(prepared.headers, "Content-Type") \subseteq
               {Overrides[i][2] : i \in OverridesNaming("content-type")}
        /\ DefaultContentType \notin ValuesOf(prepared.headers, "Content-Type")

C15_Witness ==
    /\ prepared.done
    /\ Overrides = <<(<<"content-type", <<"text/plain">>>>),
                     (<<"Content-Type", <<"override">>>>)>>
    /\ <<"Content-Type", <<"override">>>> \in prepared.headers

\* C16: headers are merged in the order defaults, API key, parent key, bearer
\* token, overrides: a header no override names holds the value of its
\* parameter, under its canonical spelling, exactly when the parameter is
\* supplied, and a header an override names in any letter case holds the
\* override's value.
C16_MergePriority ==
    prepared.done =>
        \A name \in DOMAIN proper_case :
            IF OverridesNaming(name) = {}
            THEN /\ ValuesOf(prepared.headers, proper_case[name])
                        = Derived(name)
                 /\ KeysNamed(prepared.headers, name)
                        = IF Derived(name) = {} THEN {}
                          ELSE {proper_case[name]}
            ELSE /\ ValuesOf(prepared.headers, proper_case[name])
                        = {LastOverride(name)}
                 /\ KeysNamed(prepared.headers, name) = {proper_case[name]}

C16_Witness ==
    /\ prepared.done
    /\ prepared.api_key = "API_KEY_1"
    /\ prepared.parent_key = None
    /\ prepared.jwt = "JWT"
    /\ Overrides = <<(<<"authorization", <<"override">>>>)>>
    /\ <<"X-AgentOps-Api-Key", <<"API_KEY_1">>>> \in prepared.headers
    /\ <<"Authorization", <<"override">>>> \in prepared.headers
    /\ KeysNamed(prepared.headers, "x-agentops-parent-key") = {}

\* C17: header names match case-insensitively for every name: the composed
\* headers never hold two keys that are equal ignoring case.
C17_NoKeysEqualIgnoringCase ==
    prepared.done =>
        \A k1, k2 \in KeysOf(prepared.headers) :
            lower(k1) = lower(k2) => k1 = k2

\* The error post and get build from the body of a 400: "API server: "
\* followed by the value of the body's message field when the body has
\* one, and by the whole body otherwise.
BuiltFromBody ==
    /\ outcome.kind = "raise"
    /\ outcome.exc = ApiServerException
    /\ outcome.msg = MsgApiServer
    /\ IF \E kv \in First.response.json : kv[1] = "message"
       THEN outcome.detail =
                [from |-> "message",
                 text |-> ValueOf(First.response.json, "message"),
                 body |-> EmptyBody]
       ELSE outcome.detail =
                [from |-> "body", text |-> None,
                 body |-> First.response.json]

\* C18 as stated: every call whose request is answered with code 400,
\* delivered as an ordinary response or attached to an HTTPError, raises an
\* error whose message is built from the body's message field when the body
\* has one, and from the whole body otherwise.
C18_BadRequestAnyBody ==
    (/\ IsCall
     /\ CarriesResponse(First)
     /\ First.response.status_code = 400) =>
        BuiltFromBody

\* C18, amended: a call answered with code 400 and a body that parses raises
\* ApiServerException with the message "API server: " followed by the value
\* of the body's message field when the body has one, and by the whole body
\* otherwise.  When the body of the 400 does not parse, the error is not
\* built from the body: a 400 attached to an HTTPError raises
\* ApiServerException "HTTPError: ...", an ordinary 400 response raises
\* ApiServerException "RequestException: ..." or lets the ValueError of
\* json() through.
C18_BadRequestMessage ==
    (/\ IsCall
     /\ CarriesResponse(First)
     /\ First.response.status_code = 400) =>
        IF First.response.parsable
        THEN BuiltFromBody
        ELSE /\ outcome.kind = "raise"
             /\ outcome.response = NoResponse
             /\ outcome.detail = NoDetail
             /\ IF First.kind = "HTTPError"
                THEN /\ outcome.exc = ApiServerException
                     /\ outcome.msg = "HTTPError: "
                ELSE \/ /\ outcome.exc = ApiServerException
                        /\ outcome.msg = "RequestException: "
                     \/ /\ outcome.exc = "ValueError"
                        /\ outcome.msg = None

C18_Witness ==
    /\ op = "get"
    /\ First.kind = "HTTPError"
    /\ First.response.status_code = 400
    /\ First.response.json = BodyError
    /\ First.response.parsable
    /\ outcome.exc = ApiServerException
    /\ outcome.msg = MsgApiServer
    /\ outcome.detail.from = "body"
    /\ outcome.detail.body = BodyError

\* C19: every Response post or get returns to the caller carries the code
\* the transport delivered and the status get_status gives that code, for
\* every code the transport can deliver.
C19_ReturnedStatusMatchesCode ==
    (IsCall /\ outcome.kind = "return") =>
        /\ CarriesResponse(First)
        /\ outcome.response.code = First.response.status_code
        /\ outcome.response.status = get_status(outcome.response.code)

C19_Witness ==
    /\ op = "post"
    /\ First.kind = "HTTPError"
    /\ First.response.status_code = 429
    /\ outcome.kind = "return"
    /\ outcome.response.code = 429
    /\ outcome.response.status = "TOO_MANY_REQUESTS"

\* C20: post and get never return a Response with code 400, 401 or 500: a
\* request answered with one of these codes and a body that parses, as an
\* ordinary response or attached to an HTTPError, ends in ApiServerException.
C20_NoReturnOfTerminalCodes ==
    IsCall =>
        /\ outcome.kind = "return" =>
                outcome.response.code \notin {400, 401, 500}
        /\ (/\ CarriesResponse(First)
            /\ First.response.parsable
            /\ First.response.status_code \in {400, 401, 500}) =>
                /\ outcome.kind = "raise"
                /\ outcome.exc = ApiServerException

C20_Witness ==
    /\ op = "get"
    /\ First.kind = "HTTPError"
    /\ First.response.status_code = 500
    /\ First.response.parsable
    /\ outcome.kind = "raise"
    /\ outcome.exc = ApiServerException
    /\ outcome.msg = MsgInternal

\* C21: when the transport raises an HTTPError whose attached response has a
\* body that cannot be parsed, post and get raise ApiServerException with the
\* message "HTTPError: ...", whatever the status code of the response: the
\* checks of 401, 400 and 500 are not reached and no Response is returned.
C21_UnparsableHTTPErrorRaises ==
    (/\ IsCall
     /\ First.kind = "HTTPError"
     /\ ~First.response.parsable) =>
        /\ outcome.kind = "raise"
        /\ outcome.exc = ApiServerException
        /\ outcome.msg = "HTTPError: "
        /\ outcome.msg \notin {MsgInvalidKeyPost, MsgInvalidKeyGet,
                               MsgApiServer, MsgInternal}
        /\ outcome.response = NoResponse

C21_Witness ==
    /\ op = "get"
    /\ First.kind = "HTTPError"
    /\ First.response.status_code = 401
    /\ ~First.response.parsable
    /\ outcome.kind = "raise"
    /\ outcome.exc = ApiServerException
    /\ outcome.msg = "HTTPError: "

====
